---- MODULE Spec2Model ----
(***************************************************************************)
(* World Bank ETL pipeline: load_countries.py, load_indicators.py and      *)
(* load_values.py.  Each script is one run of main(): check the settings,  *)
(* open and probe the store connection, walk the pages of the API, clean   *)
(* the accumulated rows, replace the destination table, bulk-load and      *)
(* verify.  The three scripts share the structure and differ in the        *)
(* record mapping, the end-of-stream test, the cleaning step and the outer *)
(* loop over indicator codes of load_values.py.                            *)
(***************************************************************************)
EXTENDS Integers, Sequences, FiniteSets, TLC

\* ------------------------------------------------------------------ bounds

\* Largest total page count a response's metadata reports.
MaxPages == 2
\* Largest number of records on one page.
MaxRecs == 2
\* Largest number of rows the API lets one run accumulate.
MaxRows == 4
\* Largest number of runs of the script, one after the other.
MaxRuns == 2
\* Largest number of rows the API lets a run accumulate when the run is to be
\* repeated against the same responses.
MaxTapeRows == 2

\* ------------------------------------------------------------ JSON values

\* Python's None / JSON null.
None == "None"
\* pandas' NaN, and a parsed float (in hundredths), as to_numeric yields them.
NaN == <<"nan", 0>>
Float(n) == <<"float", n>>

\* dict.get(k): the value, or None when the key is absent.
Get(r, k) == IF k \in DOMAIN r THEN r[k] ELSE None
\* dict.get(k, {}).get(f): None when the sub-object or its field is absent.
GetIn(r, k, f) ==
    IF k \in DOMAIN r THEN (IF f \in DOMAIN r[k] THEN r[k][f] ELSE None) ELSE None

SeqsUpTo(S, n) == UNION {[1..k -> S] : k \in 0..n}

\* ------------------------------------------------------------ the scripts

Scripts == {"countries", "indicators", "values"}

required_vars == {"DB_USER", "DB_PASS", "DB_HOST", "DB_PORT", "DB_NAME"}
\* What os.getenv finds for a setting: nothing, the empty string, or a value.
EnvValues == {None, "", "set"}
\* (a variant that tests only for an unset variable)
missing_vars_unset_only(e) == {v \in required_vars : e[v] = None}
\* missing_vars = [var for var in required_vars if not os.getenv(var)]
missing_vars(e) == {v \in required_vars : e[v] = None \/ e[v] = ""}

\* load_values.py walks a fixed list of indicator codes; the model keeps the
\* first two of the eleven.
indicators == <<"NY.GDP.MKTP.CD", "NY.GDP.PCAP.CD">>

\* -------------------------------------------------- source records (input)

CountryRaws == {
    [id |-> "WLD", iso2Code |-> "1W", name |-> "World",
     region |-> [id |-> "NA", value |-> "Aggregates"],
     incomeLevel |-> [id |-> "NA", value |-> "Aggregates"],
     capitalCity |-> "", longitude |-> "", latitude |-> ""],
    [id |-> "FRA", iso2Code |-> "FR", name |-> "France",
     region |-> [id |-> "ECS", value |-> "Europe & Central Asia"],
     incomeLevel |-> [id |-> "HIC", value |-> "High income"],
     capitalCity |-> "Paris", longitude |-> "2.35", latitude |-> "48.85"],
    [id |-> "XKX", name |-> "Kosovo", longitude |-> "not-a-number"] }

IndicatorRaws == {
    [id |-> "SP.POP.TOTL", name |-> "Population, total",
     source |-> [id |-> "2", value |-> "World Development Indicators"],
     sourceNote |-> "Total population", sourceOrganization |-> "UN",
     topics |-> << [id |-> "8", value |-> "Health"], [id |-> "19", value |-> "Climate"] >>],
    [id |-> "SP.POP.TOTL", name |-> "Population (archived)", topics |-> << >>],
    [id |-> "NY.GDP.MKTP.CD", name |-> "GDP (current US$)"] }

ValueRaws == {
    [countryiso3code |-> "FRA", country |-> [id |-> "FR", value |-> "France"],
     indicator |-> [id |-> "SP.POP.TOTL", value |-> "Population, total"],
     date |-> "2020", value |-> "1.5"],
    [countryiso3code |-> "FRA", country |-> [id |-> "FR", value |-> "France"],
     indicator |-> [id |-> "SP.POP.TOTL", value |-> "Population, total"],
     date |-> "2021", value |-> None],
    [countryiso3code |-> "DEU", country |-> [id |-> "DE", value |-> "Germany"],
     indicator |-> [id |-> "SP.POP.TOTL", value |-> "Population, total"],
     date |-> "2020"],
    [countryiso3code |-> "DEU", country |-> [id |-> "DE", value |-> "Germany"],
     indicator |-> [id |-> "SP.POP.TOTL", value |-> "Population, total"],
     date |-> "2020Q1", value |-> "3.5"],
    [country |-> [id |-> "DE", value |-> "Germany"],
     indicator |-> [id |-> "SP.POP.TOTL", value |-> "Population, total"],
     date |-> "2020", value |-> "2.5"] }

Raws(s) ==
    CASE s = "countries" -> CountryRaws
      [] s = "indicators" -> IndicatorRaws
      [] s = "values" -> ValueRaws

\* ------------------------------------------------------- record mapping

MapCountry(country) ==
    [country_id |-> Get(country, "id"),
     iso2_code |-> Get(country, "iso2Code"),
     country_name |-> Get(country, "name"),
     region_id |-> GetIn(country, "region", "id"),
     region_name |-> GetIn(country, "region", "value"),
     income_level_id |-> GetIn(country, "incomeLevel", "id"),
     income_level_name |-> GetIn(country, "incomeLevel", "value"),
     capital_city |-> Get(country, "capitalCity"),
     longitude |-> Get(country, "longitude"),
     latitude |-> Get(country, "latitude")]

get_topic_field(indicator, field) ==
    IF "topics" \in DOMAIN indicator /\ Len(indicator.topics) > 0
    THEN Get(indicator.topics[1], field)
    ELSE None

MapIndicator(indicator) ==
    [indicator_id |-> Get(indicator, "id"),
     indicator_name |-> Get(indicator, "name"),
     source_id |-> GetIn(indicator, "source", "id"),
     source_name |-> GetIn(indicator, "source", "value"),
     source_note |-> Get(indicator, "sourceNote"),
     source_organization |-> Get(indicator, "sourceOrganization"),
     topic_id |-> get_topic_field(indicator, "id"),
     topic |-> get_topic_field(indicator, "value")]

\* item['k'] and item['k']['value'] raise KeyError on an absent key.
ValueKeysPresent(item) ==
    /\ {"countryiso3code", "country", "indicator", "date", "value"} \subseteq DOMAIN item
    /\ "value" \in DOMAIN item.country
    /\ {"id", "value"} \subseteq DOMAIN item.indicator

MapValue(item) ==
    [country_id |-> item.countryiso3code,
     country |-> item.country.value,
     indicator_id |-> item.indicator.id,
     indicator |-> item.indicator.value,
     year |-> item.date,
     value |-> item.value]

\* if item.get('value') is not None
ValueRetained(item) == Get(item, "value") # None

MapAll(s, records) ==
    [i \in 1..Len(records) |->
        IF s = "countries" THEN MapCountry(records[i]) ELSE MapIndicator(records[i])]

\* The for loop over one page of observations: rows are appended in order
\* until a retained item lacks a key; the KeyError leaves the loop.
RECURSIVE AppendValues(_, _)
AppendValues(items, rows) ==
    IF items = << >> THEN [rows |-> rows, raised |-> FALSE]
    ELSE IF ~ValueRetained(Head(items)) THEN AppendValues(Tail(items), rows)
    ELSE IF ~ValueKeysPresent(Head(items)) THEN [rows |-> rows, raised |-> TRUE]
    ELSE AppendValues(Tail(items), Append(rows, MapValue(Head(items))))

\* ------------------------------------------------------------ API responses

\* The metadata element: pages present (1..MaxPages) or absent.
Metas == {[page |-> 1, pages |-> p] : p \in 1..MaxPages} \cup {[page |-> 1]}

\* metadata.get('pages', 1)
PagesOf(meta) == IF "pages" \in DOMAIN meta THEN meta.pages ELSE 1

\* What response.json() returns: null, an object with len keys, a list of one
\* element (the API's error message), the [metadata, records] list, or a list
\* with a third element after the two.
JsonBodies(s) ==
    {[kind |-> "null", len |-> 0]}
    \cup {[kind |-> "dict", len |-> n] : n \in {1, 2}}
    \cup {[kind |-> "list", len |-> 1]}
    \cup {[kind |-> "list", len |-> n, meta |-> m, records |-> r] :
            n \in {2, 3}, m \in Metas, r \in SeqsUpTo(Raws(s), MaxRecs)}

\* The body has a data[0] and a data[1] the loops can read.
HasRecords(data) == data.kind = "list" /\ data.len >= 2
\* The [metadata, records] envelope with at least one record.
TwoElementPage(data) == data.kind = "list" /\ data.len = 2 /\ data.records # << >>

\* requests.get + raise_for_status + json: an exception, or a parsed body.
Responses(s) == {[ok |-> FALSE]} \cup {[ok |-> TRUE, data |-> d] : d \in JsonBodies(s)}

\* The responses the API can give once n rows are accumulated.
Fits(resp, n) ==
    (resp.ok /\ HasRecords(resp.data)) => n + Len(resp.data.records) <= MaxRows

\* load_countries / load_indicators:
\*   if not isinstance(data, list) or len(data) < 2 or not data[1]: break
EndOfStream(data) ==
    data.kind # "list" \/ data.len < 2 \/ data.records = << >>

\* load_values: if not data or len(data) < 2: break
ValuesNoData(data) == data.kind = "null" \/ data.len < 2
\* load_values: metadata = data[0] on an object raises KeyError
ValuesIndexRaises(data) == data.kind = "dict"

\* ---------------------------------------------------------- transformation

\* (a variant with SQL's null semantics: a null region name is dropped too)
FilterAggregatesAndNull(rows) ==
    SelectSeq(rows, LAMBDA r : r.region_name # "Aggregates" /\ r.region_name # None)
\* df[df['region_name'] != 'Aggregates']
FilterAggregates(rows) == SelectSeq(rows, LAMBDA r : r.region_name # "Aggregates")

FloatOf == ("2.35" :> 235) @@ ("48.85" :> 4885)
\* pd.to_numeric(errors='coerce') on one cell
to_numeric(v) == IF v \in DOMAIN FloatOf THEN Float(FloatOf[v]) ELSE NaN

\* (a variant that drops the rows whose coordinates do not parse)
CoerceCoordinatesDropInvalid(rows) ==
    LET kept == SelectSeq(rows, LAMBDA r : r.longitude \in DOMAIN FloatOf
                                           /\ r.latitude \in DOMAIN FloatOf)
    IN  [i \in 1..Len(kept) |->
            [kept[i] EXCEPT !.longitude = to_numeric(@), !.latitude = to_numeric(@)]]
\* df_final['longitude'] = pd.to_numeric(...), and the same for latitude
CoerceCoordinates(rows) ==
    [i \in 1..Len(rows) |->
        [rows[i] EXCEPT !.longitude = to_numeric(@), !.latitude = to_numeric(@)]]

TransformCountries(rows) == CoerceCoordinates(FilterAggregates(rows))

\* (a variant with keep='last')
LastOccurrence(rows, i) ==
    \A j \in (i + 1)..Len(rows) : rows[j].indicator_id # rows[i].indicator_id
\* df.drop_duplicates(subset='indicator_id'): keep='first'
FirstOccurrence(rows, i) ==
    \A j \in 1..(i - 1) : rows[j].indicator_id # rows[i].indicator_id

RECURSIVE DropFrom(_, _)
DropFrom(rows, i) ==
    IF i > Len(rows) THEN << >>
    ELSE IF FirstOccurrence(rows, i) THEN <<rows[i]>> \o DropFrom(rows, i + 1)
    ELSE DropFrom(rows, i + 1)

drop_duplicates(rows) == DropFrom(rows, 1)

IntOf == ("2020" :> 2020) @@ ("2021" :> 2021)
\* df['year'].astype('int64') raises ValueError on a cell that is no integer
AstypeRaises(rows) == \E i \in 1..Len(rows) : rows[i].year \notin DOMAIN IntOf
AstypeInt(rows) == [i \in 1..Len(rows) |-> [rows[i] EXCEPT !.year = IntOf[@]]]

\* ------------------------------------------------------- destination store

NoTable == [exists |-> FALSE, rows |-> << >>]
EmptyTable == [exists |-> TRUE, rows |-> << >>]

\* A row left by an earlier run.
OldRow(s) ==
    CASE s = "countries" ->
            CoerceCoordinates(<<MapCountry([id |-> "OLD", name |-> "Old",
                                            longitude |-> "2.35", latitude |-> "48.85"])>>)[1]
      [] s = "indicators" -> MapIndicator([id |-> "OLD", name |-> "Old"])
      [] s = "values" ->
            AstypeInt(<<MapValue([countryiso3code |-> "OLD", country |-> [value |-> "Old"],
                                  indicator |-> [id |-> "OLD", value |-> "Old"],
                                  date |-> "2020", value |-> "0.5"])>>)[1]

PriorTables(s) == {NoTable, [exists |-> TRUE, rows |-> <<OldRow(s)>>]}

KeyOk(rows, key) ==
    /\ \A i \in 1..Len(rows) : rows[i][key] # None
    /\ \A i, j \in 1..Len(rows) : i # j => rows[i][key] # rows[j][key]

\* The constraints of the fixed schemas: PRIMARY KEY and NOT NULL.
ConstraintsHold(s, rows) ==
    CASE s = "countries" ->
            KeyOk(rows, "country_id") /\ \A i \in 1..Len(rows) : rows[i].country_name # None
      [] s = "indicators" ->
            KeyOk(rows, "indicator_id") /\ \A i \in 1..Len(rows) : rows[i].indicator_name # None
      [] s = "values" -> TRUE

\* -------------------------------------------------------------------- state

VARIABLES
    script,     \* which of the three scripts runs
    env,        \* the settings os.getenv sees
    pc,         \* position of main()
    outcome,    \* how the run ended ("running" until then)
    engine,     \* "none", "open" or "disposed"
    table,      \* the committed destination table
    table0,     \* the destination table before the run
    txn,        \* the table as seen inside the open transaction of create_*_table
    ind,        \* load_values: index of the indicator code being collected
    page,       \* page counter of the pagination loop
    acc,        \* all_countries / all_indicators / all_data
    df,         \* the data frame handed to to_sql
    hist,       \* requests and responses of the current (or last) pagination loop
    nreq,       \* number of HTTP requests issued by the run
    sqlLog,     \* statements and connection events sent to the store, in order
    count,      \* what SELECT COUNT(*) returned, -1 before
    replay,     \* whether the script is run again against the same API responses
    run,        \* which run of the script this is, 1 for the first
    tape        \* the API's responses to the requests of the first run, in order

vars == <<script, env, pc, outcome, engine, table, table0, txn, ind, page, acc, df,
          hist, nreq, sqlLog, count, replay, run, tape>>

\* reqs, pagesSeen, allData and closed describe the pagination loop of one
\* code; failed and nonNull run over the whole collection; eos says that the
\* latest response was no two-element page with records, paced that
\* time.sleep ran since the latest request, mapRaised that building a row
\* raised.
NewHist(code) ==
    [code |-> code, reqs |-> << >>, pagesSeen |-> {}, allData |-> TRUE, closed |-> FALSE,
     failed |-> FALSE, nonNull |-> 0, eos |-> FALSE, paced |-> FALSE, mapRaised |-> FALSE,
     prevPages |-> 0]

Init ==
    /\ script \in Scripts
    /\ env \in [required_vars -> EnvValues]
    /\ pc = "config"
    /\ outcome = "running"
    /\ engine = "none"
    /\ table0 \in PriorTables(script)
    /\ table = table0
    /\ txn = NoTable
    /\ ind = 1
    /\ page = 1
    /\ acc = << >>
    /\ df = << >>
    /\ hist = NewHist(1)
    /\ nreq = 0
    /\ sqlLog = << >>
    /\ count = -1
    /\ replay \in BOOLEAN
    /\ run = 1
    /\ tape = << >>

\* main() returns (or an exception leaves it) with the given outcome.
Return(how) == pc' = "done" /\ outcome' = how

\* ------------------------------------------------------- settings, connect

\* if missing_vars: print(...); return
CheckConfig ==
    /\ pc = "config"
    /\ IF missing_vars(env) # {}
       THEN Return("config_error")
       ELSE pc' = "connect" /\ UNCHANGED outcome
    /\ UNCHANGED <<script, env, replay, run, tape, engine, table, table0, txn, ind, page, acc, df, hist,
                   nreq, sqlLog, count>>

\* create_engine + SELECT 1; an exception returns before anything is fetched.
Connect ==
    /\ pc = "connect"
    /\ \E ok \in BOOLEAN :
          IF ok
          THEN /\ engine' = "open"
               /\ sqlLog' = sqlLog \o <<"CONNECT", "SELECT 1">>
               /\ pc' = "fetch"
               /\ UNCHANGED outcome
          ELSE /\ engine' = "none"
               /\ sqlLog' = Append(sqlLog, "CONNECT")
               /\ Return("connect_error")
    /\ UNCHANGED <<script, env, replay, run, tape, table, table0, txn, ind, page, acc, df, hist, nreq, count>>

\* ---------------------------------------------------------------- collection

\* The request of this iteration, recorded with what the response reported.
Requested(h, code, pg, resp) ==
    LET h0 == IF pg = 1
              THEN [NewHist(code) EXCEPT !.failed = h.failed, !.nonNull = h.nonNull]
              ELSE h
        isData == resp.ok /\ resp.data.kind = "list" /\ resp.data.len = 2
        reported == IF "pages" \in DOMAIN resp.data.meta THEN resp.data.meta.pages ELSE 0
        withValue == {i \in 1..Len(resp.data.records) : ValueRetained(resp.data.records[i])}
    IN  [h0 EXCEPT !.reqs = Append(@, pg),
                   !.pagesSeen = IF isData THEN @ \cup {reported} ELSE @,
                   !.allData = @ /\ isData /\ resp.data.records # << >>,
                   !.failed = @ \/ ~resp.ok,
                   !.nonNull = IF resp.ok /\ HasRecords(resp.data)
                               THEN @ + Cardinality(withValue) ELSE @,
                   !.eos = resp.ok /\ ~TwoElementPage(resp.data),
                   !.paced = FALSE,
                   !.prevPages = IF resp.ok /\ HasRecords(resp.data)
                                 THEN PagesOf(resp.data.meta) ELSE 0]

\* (a variant that saves what was collected before the failure)
FetchFailedSavesPartial(h) ==
    /\ hist' = [h EXCEPT !.closed = TRUE]
    /\ pc' = "transform"
    /\ UNCHANGED <<ind, page, acc, outcome>>
\* The responses a run that is to be repeated can get once n rows are
\* accumulated: the API's [metadata, records] lists and its one-element error
\* message, up to MaxTapeRows rows in all.
Taped(resp, n) ==
    /\ resp.ok
    /\ resp.data.kind = "list"
    /\ resp.data.len <= 2
    /\ HasRecords(resp.data) => n + Len(resp.data.records) <= MaxTapeRows

\* The responses the API can give to the next request: any that fits in the
\* first run; in a later run the API answers as it did in the first.
Answers(s) ==
    IF run = 1
    THEN {r \in Responses(s) :
            /\ Fits(r, Len(acc))
            /\ replay => Taped(r, Len(acc))}
    ELSE IF nreq < Len(tape) THEN {tape[nreq + 1]}
    ELSE {}

\* The first run records what the API answered.
Recorded(resp) == IF replay /\ run = 1 THEN Append(tape, resp) ELSE tape

\* except Exception: print(...); return   (the collection try block)
FetchFailed(h) ==
    /\ hist' = [h EXCEPT !.closed = TRUE]
    /\ Return("fetch_error")
    /\ UNCHANGED <<ind, page, acc>>

\* break of load_countries / load_indicators: on to the emptiness check
LoopDone(h, rows) ==
    /\ hist' = [h EXCEPT !.closed = TRUE]
    /\ acc' = rows
    /\ pc' = "transform"
    /\ UNCHANGED <<ind, page, outcome>>

\* One iteration of the while loop of load_countries / load_indicators.
FetchPage ==
    /\ pc = "fetch"
    /\ script \in {"countries", "indicators"}
    /\ \E resp \in Answers(script) :
          LET h == Requested(hist, 1, page, resp)
          IN  /\ nreq' = nreq + 1
              /\ tape' = Recorded(resp)
              /\ IF ~resp.ok THEN FetchFailed(h)
                 ELSE IF EndOfStream(resp.data) THEN LoopDone(h, acc)
                 ELSE LET rows == acc \o MapAll(script, resp.data.records)
                      IN  IF page >= PagesOf(resp.data.meta)
                          THEN LoopDone(h, rows)
                          ELSE /\ page' = page + 1
                               /\ acc' = rows
                               /\ hist' = h
                               /\ UNCHANGED <<ind, pc, outcome>>
    /\ UNCHANGED <<script, env, replay, run, engine, table, table0, txn, df, sqlLog, count>>

\* break of the while loop of load_values: the next code, or the end of the
\* for loop.
CodeDone(h, rows) ==
    /\ hist' = [h EXCEPT !.closed = TRUE]
    /\ acc' = rows
    /\ page' = 1
    /\ IF ind < Len(indicators)
       THEN ind' = ind + 1 /\ pc' = "fetch"
       ELSE ind' = ind /\ pc' = "transform"
    /\ UNCHANGED outcome

\* One iteration of the while loop of load_values.
FetchValuesPage ==
    /\ pc = "fetch"
    /\ script = "values"
    /\ \E resp \in Answers(script) :
          LET h == Requested(hist, ind, page, resp)
          IN  /\ nreq' = nreq + 1
              /\ tape' = Recorded(resp)
              /\ IF ~resp.ok THEN FetchFailed(h)
                 ELSE IF ValuesNoData(resp.data) THEN CodeDone(h, acc)
                 ELSE IF ValuesIndexRaises(resp.data) THEN FetchFailed(h)
                 ELSE IF resp.data.records = << >> THEN CodeDone(h, acc)
                 ELSE LET got == AppendValues(resp.data.records, acc)
                      IN  IF got.raised
                          THEN /\ hist' = [h EXCEPT !.closed = TRUE, !.mapRaised = TRUE]
                               /\ acc' = got.rows
                               /\ Return("fetch_error")
                               /\ UNCHANGED <<ind, page>>
                          ELSE IF page >= PagesOf(resp.data.meta)
                          THEN CodeDone(h, got.rows)
                          ELSE /\ page' = page + 1
                               /\ acc' = got.rows
                               /\ hist' = h
                               /\ pc' = "sleep"
                               /\ UNCHANGED <<ind, outcome>>
    /\ UNCHANGED <<script, env, replay, run, engine, table, table0, txn, df, sqlLog, count>>

\* time.sleep(0.5) before the next request of load_values.
Sleep ==
    /\ pc = "sleep"
    /\ pc' = "fetch"
    /\ hist' = [hist EXCEPT !.paced = TRUE]
    /\ UNCHANGED <<script, env, replay, run, tape, outcome, engine, table, table0, txn, ind, page, acc, df,
                   nreq, sqlLog, count>>

\* ------------------------------------------------------------ transformation

\* (a variant without the emptiness check)
NeverEmpty(rows) == FALSE
\* if not all_countries / all_indicators / all_data
IsEmptyResult(rows) == rows = << >>

\* From the emptiness check to the data frame that is saved: an empty
\* accumulator returns; an exception of the cleaning step is caught nowhere.
Transform ==
    /\ pc = "transform"
    /\ IF IsEmptyResult(acc)
       THEN Return("empty") /\ UNCHANGED df
       ELSE CASE script = "countries" ->
                    /\ df' = TransformCountries(acc)
                    /\ pc' = "create_begin"
                    /\ UNCHANGED outcome
              [] script = "indicators" ->
                    /\ df' = drop_duplicates(acc)
                    /\ pc' = "create_begin"
                    /\ UNCHANGED outcome
              [] script = "values" ->
                    IF AstypeRaises(acc)
                    THEN Return("crash") /\ UNCHANGED df
                    ELSE /\ df' = AstypeInt(acc)
                         /\ pc' = "create_begin"
                         /\ UNCHANGED outcome
    /\ UNCHANGED <<script, env, replay, run, tape, engine, table, table0, txn, ind, page, acc, hist, nreq,
                   sqlLog, count>>

\* ------------------------------------------------------- schema replacement

\* (a variant whose caller ignores the False that create_*_table returns)
CreateFailedIgnored(events) ==
    /\ sqlLog' = sqlLog \o events
    /\ txn' = NoTable
    /\ pc' = "load"
    /\ UNCHANGED <<table, outcome>>
\* An exception inside create_*_table: the transaction is rolled back, the
\* function returns False and main returns through its finally clause.
CreateFailed(events) ==
    /\ sqlLog' = sqlLog \o events
    /\ txn' = NoTable
    /\ pc' = "finally"
    /\ outcome' = "create_failed"
    /\ UNCHANGED table

\* (a variant that keeps a table that exists and appends to it)
BeginTxnSkipsExisting ==
    /\ pc = "create_begin"
    /\ \E ok \in BOOLEAN :
          IF table.exists
          THEN /\ pc' = "load"
               /\ UNCHANGED <<sqlLog, txn, table, outcome>>
          ELSE IF ok
          THEN /\ sqlLog' = Append(sqlLog, "BEGIN")
               /\ txn' = table
               /\ pc' = "create_drop"
               /\ UNCHANGED <<table, outcome>>
          ELSE CreateFailed(<< >>)
    /\ UNCHANGED <<script, env, replay, run, tape, engine, table0, ind, page, acc, df, hist, nreq, count>>
\* with engine.begin() as conn:
BeginTxn ==
    /\ pc = "create_begin"
    /\ \E ok \in BOOLEAN :
          IF ok
          THEN /\ sqlLog' = Append(sqlLog, "BEGIN")
               /\ txn' = table
               /\ pc' = "create_drop"
               /\ UNCHANGED <<table, outcome>>
          ELSE CreateFailed(<< >>)
    /\ UNCHANGED <<script, env, replay, run, tape, engine, table0, ind, page, acc, df, hist, nreq, count>>

\* (a variant on an autocommit connection: the DROP takes effect at once)
ExecDropAutocommit ==
    /\ pc = "create_drop"
    /\ \E ok \in BOOLEAN :
          IF ok
          THEN /\ sqlLog' = Append(sqlLog, "DROP")
               /\ txn' = NoTable
               /\ table' = NoTable
               /\ pc' = "create_create"
               /\ UNCHANGED outcome
          ELSE CreateFailed(<<"DROP", "ROLLBACK">>)
    /\ UNCHANGED <<script, env, replay, run, tape, engine, table0, ind, page, acc, df, hist, nreq, count>>
\* conn.execute(text(drop_table_sql))
ExecDrop ==
    /\ pc = "create_drop"
    /\ \E ok \in BOOLEAN :
          IF ok
          THEN /\ sqlLog' = Append(sqlLog, "DROP")
               /\ txn' = NoTable
               /\ pc' = "create_create"
               /\ UNCHANGED <<table, outcome>>
          ELSE CreateFailed(<<"DROP", "ROLLBACK">>)
    /\ UNCHANGED <<script, env, replay, run, tape, engine, table0, ind, page, acc, df, hist, nreq, count>>

\* conn.execute(text(create_table_sql))
ExecCreate ==
    /\ pc = "create_create"
    /\ \E ok \in BOOLEAN :
          IF ok
          THEN /\ sqlLog' = Append(sqlLog, "CREATE")
               /\ txn' = EmptyTable
               /\ pc' = "create_commit"
               /\ UNCHANGED <<table, outcome>>
          ELSE CreateFailed(<<"CREATE", "ROLLBACK">>)
    /\ UNCHANGED <<script, env, replay, run, tape, engine, table0, ind, page, acc, df, hist, nreq, count>>

\* leaving the with block commits; create_*_table returns True
CommitTxn ==
    /\ pc = "create_commit"
    /\ \E ok \in BOOLEAN :
          IF ok
          THEN /\ sqlLog' = Append(sqlLog, "COMMIT")
               /\ table' = txn
               /\ txn' = NoTable
               /\ pc' = "load"
               /\ UNCHANGED outcome
          ELSE CreateFailed(<<"ROLLBACK">>)
    /\ UNCHANGED <<script, env, replay, run, tape, engine, table0, ind, page, acc, df, hist, nreq, count>>

\* ------------------------------------------------------------ load and verify

\* (a variant that commits only the first row of the frame)
InsertedFirstBatch(rows, frame) ==
    IF frame = << >> THEN rows ELSE Append(rows, Head(frame))
\* if_exists='append': the rows of the frame are added to those of the table
Inserted(rows, frame) == rows \o frame

\* (a variant whose failure also undoes the schema replacement)
LoadRollsBackCreate ==
    /\ pc = "load"
    /\ \E ok \in BOOLEAN :
          IF ok /\ ConstraintsHold(script, df)
          THEN /\ table' = [table EXCEPT !.rows = Inserted(@, df)]
               /\ sqlLog' = sqlLog \o <<"INSERT", "COMMIT">>
               /\ pc' = "verify"
               /\ UNCHANGED outcome
          ELSE /\ sqlLog' = sqlLog \o <<"INSERT", "ROLLBACK">>
               /\ pc' = "finally"
               /\ outcome' = "load_failed"
               /\ table' = table0
    /\ UNCHANGED <<script, env, replay, run, tape, engine, table0, txn, ind, page, acc, df, hist, nreq, count>>
\* df.to_sql(if_exists='append', method='multi'): one transaction of its own.
Load ==
    /\ pc = "load"
    /\ \E ok \in BOOLEAN :
          IF ok /\ ConstraintsHold(script, df)
          THEN /\ table' = [table EXCEPT !.rows = Inserted(@, df)]
               /\ sqlLog' = sqlLog \o <<"INSERT", "COMMIT">>
               /\ pc' = "verify"
               /\ UNCHANGED outcome
          ELSE /\ sqlLog' = sqlLog \o <<"INSERT", "ROLLBACK">>
               /\ pc' = "finally"
               /\ outcome' = "load_failed"
               /\ UNCHANGED table
    /\ UNCHANGED <<script, env, replay, run, tape, engine, table0, txn, ind, page, acc, df, hist, nreq, count>>

\* The schema query and SELECT COUNT(*) on one connection.
Verify ==
    /\ pc = "verify"
    /\ \E failAt \in {"schema", "count", "none"} :
          /\ sqlLog' = sqlLog \o (CASE failAt = "schema" -> <<"SCHEMA">>
                                    [] OTHER -> <<"SCHEMA", "COUNT">>)
          /\ count' = IF failAt = "none" THEN Len(table.rows) ELSE count
          /\ outcome' = IF failAt = "none" THEN "success" ELSE "verify_failed"
    /\ pc' = "finally"
    /\ UNCHANGED <<script, env, replay, run, tape, engine, table, table0, txn, ind, page, acc, df, hist, nreq>>

\* finally: engine.dispose()
Dispose ==
    /\ pc = "finally"
    /\ engine' = "disposed"
    /\ sqlLog' = Append(sqlLog, "DISPOSE")
    /\ pc' = "done"
    /\ UNCHANGED <<script, env, replay, run, tape, outcome, table, table0, txn, ind, page, acc, df, hist,
                   nreq, count>>

\* The script is started again after a run that reported success: main()
\* starts from scratch against the table the run before left.
Rerun ==
    /\ pc = "done"
    /\ outcome = "success"
    /\ replay
    /\ run < MaxRuns
    /\ run' = run + 1
    /\ pc' = "config"
    /\ outcome' = "running"
    /\ engine' = "none"
    /\ table0' = table
    /\ txn' = NoTable
    /\ ind' = 1
    /\ page' = 1
    /\ acc' = << >>
    /\ df' = << >>
    /\ hist' = NewHist(1)
    /\ nreq' = 0
    /\ sqlLog' = << >>
    /\ count' = -1
    /\ UNCHANGED <<script, env, replay, table, tape>>

Next ==
    \/ CheckConfig
    \/ Connect
    \/ FetchPage
    \/ FetchValuesPage
    \/ Sleep
    \/ Transform
    \/ BeginTxn
    \/ ExecDrop
    \/ ExecCreate
    \/ CommitTxn
    \/ Load
    \/ Verify
    \/ Dispose
    \/ Rerun

Spec == Init /\ [][Next]_vars

\* The interpreter runs the script step by step: a step that can be taken is
\* taken.
FairSpec == Spec /\ WF_vars(Next)

\* =================================================================== claims

\* The run is past the cleaning step: df is the frame handed to the load.
SavePcs == {"create_begin", "create_drop", "create_create", "create_commit", "load",
            "verify", "finally"}
SaveOutcomes == {"create_failed", "load_failed", "verify_failed", "success"}
Transformed == pc \in SavePcs \/ (pc = "done" /\ outcome \in SaveOutcomes)

\* No DROP, CREATE or INSERT was sent to the store.
NoTableStatement == \A i \in 1..Len(sqlLog) : sqlLog[i] \notin {"DROP", "CREATE", "INSERT"}

\* The health check of the connection passed.
HealthCheckPassed == \E i \in 1..Len(sqlLog) : sqlLog[i] = "SELECT 1"

\* C1: when the pagination loop of a dataset (of one indicator code, for
\* load_values) has ended and every response of it reported pages = p and
\* carried a non-empty records list, the requests issued were exactly those
\* for pages 1, 2, ..., p, in that order.
C1_ExactlyPFetches ==
    \A p \in 1..MaxPages :
        (hist.closed /\ hist.allData /\ hist.pagesSeen = {p})
            => hist.reqs = [i \in 1..p |-> i]

\* C2: a run whose health check passed has released the connection when it
\* ends, whatever the exit path.
C2_ConnectionReleased ==
    (pc = "done" /\ HealthCheckPassed) => engine = "disposed"

\* C3: once a page request has failed, the run is over with a reported fetch
\* error, no DROP, CREATE or INSERT was sent and the destination table is the
\* one that existed before the run.
C3_FetchErrorLeavesTable ==
    hist.failed =>
        /\ pc = "done" /\ outcome = "fetch_error"
        /\ NoTableStatement
        /\ table = table0

C3_Witness ==
    /\ hist.failed
    /\ acc # << >>
    /\ table0.exists
    /\ script = "values" /\ ind = 2

\* C4: a collection that ended with an empty accumulator ends the run with
\* the condition reported; the run never reaches the table replacement, and
\* the destination table is the one that existed before the run.
C4_EmptyResultAborts ==
    (acc = << >> /\ pc \notin {"config", "connect", "fetch", "sleep", "transform"})
        => /\ pc = "done"
           /\ outcome \in {"config_error", "connect_error", "fetch_error", "empty"}
           /\ NoTableStatement
           /\ table = table0

C4_Witness ==
    /\ outcome = "empty"
    /\ table0.exists
    /\ script = "values" /\ nreq >= 2 /\ hist.nonNull = 0 /\ hist.allData

\* C5: every INSERT in the statement log comes after BEGIN, DROP, CREATE and
\* COMMIT of the schema replacement, with no rollback before it; every
\* verification query comes after an INSERT that was committed.
C5_ReplaceStepsOrdered ==
    \A i \in 1..Len(sqlLog) :
        /\ sqlLog[i] = "INSERT" =>
              /\ i > 4
              /\ <<sqlLog[i - 4], sqlLog[i - 3], sqlLog[i - 2], sqlLog[i - 1]>>
                     = <<"BEGIN", "DROP", "CREATE", "COMMIT">>
              /\ \A j \in 1..(i - 1) : sqlLog[j] # "ROLLBACK"
        /\ sqlLog[i] \in {"SCHEMA", "COUNT"} =>
              \E j \in 1..(i - 2) : sqlLog[j] = "INSERT" /\ sqlLog[j + 1] = "COMMIT"

C5_Witness ==
    /\ outcome = "success"
    /\ pc = "done"
    /\ \E i \in 1..Len(sqlLog) : sqlLog[i] = "COUNT"

\* C6: the committed table is never dropped without being recreated: it is
\* the prior table until the schema replacement commits, the prior table
\* (rows included) when create_*_table returned False, and the fresh empty
\* table when it returned True.
C6_SchemaReplaceAtomic ==
    /\ pc \in {"create_begin", "create_drop", "create_create", "create_commit"}
          => table = table0
    /\ outcome = "create_failed" => table = table0
    /\ pc = "load" => table = EmptyTable
    /\ ~table.exists => ~table0.exists

C6_Witness ==
    /\ outcome = "create_failed"
    /\ table0.exists /\ table0.rows # << >>
    /\ \E i \in 1..Len(sqlLog) : sqlLog[i] = "CREATE"

\* C7: with a required setting unset or empty the run is over after the
\* settings check: no HTTP request, no connection attempt, no statement.
C7_ConfigErrorNoActivity ==
    (\E v \in required_vars : env[v] \in {None, ""})
        => /\ pc \in {"config", "done"}
           /\ nreq = 0
           /\ sqlLog = << >>
           /\ engine = "none"
           /\ table = table0

C7_Witness ==
    /\ pc = "done"
    /\ outcome = "config_error"
    /\ env["DB_PASS"] = ""
    /\ \A v \in required_vars \ {"DB_PASS"} : env[v] = "set"

\* C8: the frame handed to the load of countries holds no row of region
\* "Aggregates" and holds, in order, every collected row of another region
\* name (a null one included); a successful run stores exactly that frame.
C8_NoAggregatesAllOthers ==
    (script = "countries" /\ Transformed) =>
        LET others == {i \in 1..Len(acc) : acc[i].region_name # "Aggregates"}
        IN  /\ \A k \in 1..Len(df) : df[k].region_name # "Aggregates"
            /\ Len(df) = Cardinality(others)
            /\ \A i \in others :
                  LET k == Cardinality({j \in others : j <= i})
                  IN  /\ df[k].country_id = acc[i].country_id
                      /\ df[k].country_name = acc[i].country_name
                      /\ df[k].region_name = acc[i].region_name
            /\ outcome = "success" => table.rows = df

C8_Witness ==
    /\ script = "countries"
    /\ outcome = "success"
    /\ \E i \in 1..Len(acc) : acc[i].region_name = "Aggregates"
    /\ \E i \in 1..Len(acc) : acc[i].region_name = None
    /\ \E k \in 1..Len(df) : df[k].region_name = None

\* C9: the deduplicated frame of indicators has pairwise distinct
\* identifiers, holds every identifier that was collected, and each of its
\* rows is the first collected row of its identifier.
C9_DedupKeepsFirst ==
    (script = "indicators" /\ Transformed) =>
        /\ \A k, l \in 1..Len(df) : k # l => df[k].indicator_id # df[l].indicator_id
        /\ \A i \in 1..Len(acc) : \E k \in 1..Len(df) : df[k].indicator_id = acc[i].indicator_id
        /\ \A k \in 1..Len(df) :
              \E i \in 1..Len(acc) :
                  /\ df[k] = acc[i]
                  /\ \A j \in 1..(i - 1) : acc[j].indicator_id # acc[i].indicator_id

C9_Witness ==
    /\ script = "indicators"
    /\ Transformed
    /\ Len(hist.reqs) = 2
    /\ \E i, j \in 1..Len(acc) :
          /\ i < j
          /\ acc[i].indicator_id = acc[j].indicator_id
          /\ acc[i].indicator_name = "Population (archived)"
          /\ acc[j].indicator_name = "Population, total"

\* C10: in load_values every accumulated row has a non-null value, and the
\* accumulator holds one row for every record with a non-null value on the
\* pages fetched so far.
C10_NonNullValuesAccumulated ==
    script = "values" =>
        /\ \A i \in 1..Len(acc) : acc[i].value # None
        /\ Len(acc) = hist.nonNull

\* C11: building the row of a source record never raises: no collection is
\* aborted by the mapping of a record, whichever of its fields are absent.
C11_MappingNeverRaises == ~hist.mapRaised

\* C12: a response that is no two-element page with records (an object, null,
\* a list of one or of three elements, an empty records list) ends the
\* pagination loop normally: the loop is closed, the accumulator is what it
\* was, and no fetch error ends the run.
C12_NotTwoElementsIsEndOfStream ==
    [][(nreq' = nreq + 1 /\ hist'.eos)
          => (hist'.closed /\ acc' = acc /\ outcome' # "fetch_error")]_vars

\* C13: no exception escapes main: every failure ends the run by a return.
C13_NoExceptionEscapes == outcome # "crash"

\* C14: every request after the first of a run of load_values is preceded by
\* a pacing delay since the request before it; load_countries and
\* load_indicators never delay.
C14_DelayBetweenRequests ==
    [][(nreq' = nreq + 1 /\ nreq > 0) => (hist.paced <=> script = "values")]_vars

\* C15: the count the verification reads is the number of rows of the frame
\* that was loaded.
C15_CountIsRowsLoaded == count # -1 => (outcome = "success" /\ count = Len(df))

C15_Witness ==
    /\ pc = "done"
    /\ outcome = "success"
    /\ count = 2
    /\ table0.rows # << >>

\* C17: after a failed bulk load the fresh table exists, holds only rows of
\* the frame of this run and none of the prior rows, the failure is the
\* outcome of the run, and no verification query ran.
C17_LoadFailureLeavesFreshTable ==
    outcome = "load_failed" =>
        /\ table.exists
        /\ Len(table.rows) <= Len(df)
        /\ \A i \in 1..Len(table.rows) : \E k \in 1..Len(df) : table.rows[i] = df[k]
        /\ \A i \in 1..Len(table.rows) :
              \A j \in 1..Len(table0.rows) : table.rows[i] # table0.rows[j]
        /\ count = -1
        /\ \A i \in 1..Len(sqlLog) : sqlLog[i] \notin {"SCHEMA", "COUNT"}

C17_Witness ==
    /\ pc = "done"
    /\ outcome = "load_failed"
    /\ table0.rows # << >>
    /\ df # << >>
    /\ table = EmptyTable

\* C18: the coercion of the coordinates keeps every row that passed the
\* aggregate filter: a coordinate that is no number becomes NaN, a number is
\* parsed, and the other columns are those of the collected row.
OtherCountryColumns ==
    {"country_id", "iso2_code", "country_name", "region_id", "region_name",
     "income_level_id", "income_level_name", "capital_city"}

C18_CoercionKeepsRows ==
    (script = "countries" /\ Transformed) =>
        LET others == {i \in 1..Len(acc) : acc[i].region_name # "Aggregates"}
        IN  /\ Len(df) = Cardinality(others)
            /\ \A i \in others :
                  LET k == Cardinality({j \in others : j <= i})
                  IN  /\ \A c \in OtherCountryColumns : df[k][c] = acc[i][c]
                      /\ acc[i].longitude \in {None, "", "not-a-number"}
                            => df[k].longitude = NaN
                      /\ acc[i].longitude = "2.35" => df[k].longitude = Float(235)
                      /\ acc[i].latitude \in {None, ""} => df[k].latitude = NaN
                      /\ acc[i].latitude = "48.85" => df[k].latitude = Float(4885)

C18_Witness ==
    /\ script = "countries"
    /\ outcome = "success"
    /\ \E k \in 1..Len(table.rows) :
          /\ table.rows[k].country_id = "XKX"
          /\ table.rows[k].longitude = NaN
    /\ \E k \in 1..Len(table.rows) : table.rows[k].longitude = Float(235)

\* C19: the table replacement is never entered with an empty frame, and a
\* run that reports success leaves a table with at least one row.
C19_ReplacedTableNeverEmpty ==
    /\ pc \in {"create_begin", "create_drop", "create_create", "create_commit", "load"}
          => df # << >>
    /\ outcome = "success" => table.rows # << >>

\* C16: after a run that reported success the table holds exactly the frame
\* of that run, whatever it held before (no row of an earlier load in the
\* first run); a further run against the same responses leaves the table as
\* the run before left it.
C16_FullReplaceIdempotent ==
    outcome = "success" =>
        /\ table.exists
        /\ table.rows = df
        /\ run = 1 => \A i \in 1..Len(table.rows) : table.rows[i] # OldRow(script)
        /\ run > 1 => table = table0

C16_Witness ==
    /\ pc = "done"
    /\ outcome = "success"
    /\ run = 2
    /\ Len(tape) = 2
    /\ Len(table.rows) >= 2
    /\ table = table0

\* The ends of a run the script reports itself: success, or one of the
\* failures it prints a message for.
ReportedEnds ==
    {"success", "config_error", "connect_error", "fetch_error", "empty",
     "create_failed", "load_failed", "verify_failed"}

\* C20: with every response reporting at most MaxPages pages (or none), each
\* pagination loop makes at most MaxPages requests per dataset (per code for
\* the observations), a page after the first is requested only up to the
\* pages value of the preceding response, and every run that starts comes to
\* an end that is success or a reported failure.
C20_CollectionTerminates ==
    /\ [](Len(hist.reqs) <= MaxPages)
    /\ [][(nreq' = nreq + 1 /\ page > 1) => page <= hist.prevPages]_vars
    /\ (pc = "config") ~> (pc = "done" /\ outcome \in ReportedEnds)

====
